---- MODULE Spec2Model ----
(***************************************************************************)
(* Model of obs_rec.video_compressor.VideoCompressor: the size/format      *)
(* normalisation of a recorded video (compress_if_needed, compress,        *)
(* convert_to_mp4, _get_duration, _calculate_bitrate, _run_ffmpeg) over a  *)
(* small filesystem and the outcomes of the external tools ffprobe and     *)
(* ffmpeg.                                                                 *)
(*                                                                         *)
(* Units.  File sizes are bytes.  Size budgets are whole megabytes.        *)
(* Durations are tenths of a second (ds), so "30.0" is 300 and "0.5" is 5. *)
(* Bitrates are bits per second, the value handed to ffmpeg is kbit/s.     *)
(***************************************************************************)
EXTENDS Integers, Sequences, FiniteSets, TLC

VARIABLES
    fs,              \* the filesystem: path -> file, NoFile when absent
    target_size_mb,  \* VideoCompressor.target_size_mb
    call,            \* per caller: the frame of its compress_if_needed call
    calc,            \* a direct _calculate_bitrate call: argument and result
    obs,             \* OBSClient, the OBS it talks to, and its last method call
    bot,             \* VideoRecordingBot: the recording task and its cycle
    cfg              \* a Config.from_env call: environment and result

vars == <<fs, target_size_mb, call, calc, obs, bot, cfg>>

-----------------------------------------------------------------------------
(* Bounds *)

MaxFiles == 2        \* artifacts the recorder leaves on disk at a time
MaxBudgetMB == 25    \* largest budget given to _calculate_bitrate on its own
MaxDuration == 3500  \* longest duration (ds) given to _calculate_bitrate

-----------------------------------------------------------------------------
(* Program constants *)

DefaultTargetSizeMB == 25
DefaultDuration == 300
AudioBitrateReserve == 128000
MinBitrate == 500000
MaxBitrate == 5000000
BytesPerMB == 1024 * 1024
DsPerSecond == 10

-----------------------------------------------------------------------------
(* Paths: pathlib.Path reduced to the final component, a stem (a sequence  *)
(* of name tokens) and a suffix.                                           *)

Mp4 == ".mp4"

Path(stem, suffix) == [stem |-> stem, suffix |-> suffix]

NoPath == Path(<<>>, "")

\* str.lower() on the suffixes of the model
Lower(s) ==
    CASE s = ".MP4" -> ".mp4"
      [] s = ".MKV" -> ".mkv"
      [] OTHER -> s

\* Path.with_suffix
WithSuffix(p, suffix) == [p EXCEPT !.suffix = suffix]

\* Path.with_stem
WithStem(p, stem) == [p EXCEPT !.stem = stem]

\* with_suffix alone, the stem kept
CompressOutputPathSameStem(input_path) == WithSuffix(input_path, Mp4)

\* compress: output_path when none is given
CompressOutputPath(input_path) ==
    WithSuffix(WithStem(input_path, Append(input_path.stem, "_compressed")), Mp4)

\* convert_to_mp4: output_path when none is given
ConvertOutputPath(input_path) == WithSuffix(input_path, Mp4)

Suffixes == {".mkv", ".mp4", ".MP4"}

InputPaths == {Path(<<"rec">>, s) : s \in Suffixes}

AllPaths ==
    InputPaths \cup {CompressOutputPath(p) : p \in InputPaths}
               \cup {ConvertOutputPath(p) : p \in InputPaths}

-----------------------------------------------------------------------------
(* Files *)

NoFile == [size |-> -1, dur |-> 0]

File(size, dur) == [size |-> size, dur |-> dur]

\* an existence check that always passes
ExistsUnchecked(fsys, p) == TRUE

\* Path.exists
Exists(fsys, p) == fsys[p] # NoFile

TrueDurations == {10, 600, 6000}

\* the recordings of the model: under, at and just over the default budget,
\* the oversized one at each duration
ArtifactFiles ==
    {File(10 * BytesPerMB, 600), File(25 * BytesPerMB, 600)}
        \cup {File(25 * BytesPerMB + 1, d) : d \in TrueDurations}

Budgets == {20, DefaultTargetSizeMB}

-----------------------------------------------------------------------------
(* _calculate_bitrate *)

Max(a, b) == IF a >= b THEN a ELSE b

Min(a, b) == IF a <= b THEN a ELSE b

\* ten times target_bits of one megabyte: 1024 * 1024 * 8 * 0.95 * 10
TargetBitsX10PerMB == (1024 * 1024 * 8 * 95) \div 10

\* target_bits * 10, a whole number for a whole budget
TargetBitsX10(size_mb) == size_mb * TargetBitsX10PerMB

\* floor of (target_bits / duration) - 128000, duration in ds and not 0.
\* The clamp bounds are whole numbers and the result is truncated to
\* kbit/s, so flooring here changes nothing the code computes afterwards.
VideoBitrateRaw(size_mb, duration) ==
    (IF duration > 0
       THEN TargetBitsX10(size_mb) \div duration
       ELSE -((TargetBitsX10(size_mb) + (-duration) - 1) \div (-duration)))
    - AudioBitrateReserve

\* the clamp with max in both lines
VideoBitrateMaxMax(size_mb, duration) ==
    Max(Max(VideoBitrateRaw(size_mb, duration), MinBitrate), MaxBitrate)

\* the clamp without its second line
VideoBitrateNoCeiling(size_mb, duration) ==
    Max(VideoBitrateRaw(size_mb, duration), MinBitrate)

\* max(video_bitrate, 500_000) then min(video_bitrate, 5_000_000)
VideoBitrate(size_mb, duration) ==
    Min(Max(VideoBitrateRaw(size_mb, duration), MinBitrate), MaxBitrate)

\* round() in place of int()
CalculateBitrateRounded(size_mb, duration) ==
    (VideoBitrate(size_mb, duration) + 500) \div 1000

\* int(video_bitrate / 1000): the number in the "<n>k" string
CalculateBitrate(size_mb, duration) == VideoBitrate(size_mb, duration) \div 1000

-----------------------------------------------------------------------------
(* The ffmpeg command lines *)

RECURSIVE Concat(_)
Concat(parts) == IF parts = <<>> THEN "" ELSE Head(parts) \o Concat(Tail(parts))

\* str(path) within the recording directory
PathText(p) == Concat(p.stem) \o p.suffix

\* the "<n>k" string _calculate_bitrate returns
BitrateText(kbit) == ToString(kbit) \o "k"

\* f"{int(bitrate[:-1]) * 2}k"
BufsizeText(kbit) == ToString(kbit * 2) \o "k"

\* cmd of _run_ffmpeg
RunFfmpegCmd(input_path, output_path, kbit) ==
    <<"ffmpeg", "-i", PathText(input_path),
      "-c:v", "libx264", "-preset", "medium",
      "-b:v", BitrateText(kbit), "-maxrate", BitrateText(kbit),
      "-bufsize", BufsizeText(kbit),
      "-c:a", "aac", "-b:a", "128k",
      "-movflags", "+faststart", "-f", "mp4", "-y",
      PathText(output_path)>>

\* cmd of convert_to_mp4
ConvertCmd(input_path, output_path) ==
    <<"ffmpeg", "-i", PathText(input_path),
      "-c:v", "libx264", "-preset", "fast",
      "-c:a", "aac",
      "-movflags", "+faststart", "-y",
      PathText(output_path)>>

-----------------------------------------------------------------------------
(* Outcomes of the external tools *)

\* what one ffprobe run gives: a non-zero exit ("error") or its stdout,
\* stripped: nothing, the text N/A, text that float() rejects, or a number
ProbeOut(kind, val) == [kind |-> kind, val |-> val]

\* the numbers ffprobe may print for a file: its duration, zero, or a
\* negative value (a broken start-time offset)
ProbeNumbers(file) == {file.dur, 0, -50}

ProbeOutcomes(file) ==
    {ProbeOut(k, 0) : k \in {"error", "empty", "na", "text"}}
        \cup {ProbeOut("num", v) : v \in ProbeNumbers(file)}

\* duration_str and duration_str != "N/A"
HasDuration(out) == out.kind \notin {"empty", "na"}

\* one ffmpeg run: non-zero exit, with or without a truncated output file
\* left behind, or exit status 0, with or without the output file written
\* "fail_undecodable" is a non-zero exit whose stderr is not UTF-8
FfmpegOutcomes ==
    {"fail", "fail_partial", "fail_undecodable", "ok", "ok_no_output"}

\* Path.unlink on the original
UnlinkOutcomes == {"ok", "oserror"}

\* size in bytes of a constant-bitrate encoding: (video + audio bits per
\* second) * seconds / 8, with the video rate in kbit/s and duration in ds
CbrBytes(bitrate_k, dur) ==
    ((bitrate_k + (AudioBitrateReserve \div 1000)) * dur * 25) \div 2

-----------------------------------------------------------------------------
(* The frame of one compress_if_needed call *)

ThresholdArg(given, mb) == [given |-> given, mb |-> mb]

ThresholdArgs ==
    {ThresholdArg(FALSE, 0)} \cup {ThresholdArg(TRUE, b) : b \in Budgets}

EmptyFs == [p \in AllPaths |-> NoFile]

IdleCall ==
    [pc             |-> "idle",
     video_path     |-> NoPath,
     threshold_mb   |-> 0,       \* threshold_mb after the None default
     convert_to_mp4 |-> TRUE,
     branch         |-> "none",  \* "noop", "compress" or "convert"
     output_path    |-> NoPath,
     duration       |-> 0,
     bitrate        |-> 0,       \* kbit/s handed to ffmpeg
     bitrate_budget |-> 0,       \* the budget _calculate_bitrate used
     processed_path |-> NoPath,
     ret            |-> NoPath,  \* the returned path
     exc            |-> "none",  \* the exception that escaped
     probes         |-> 0,       \* ffprobe runs of this call
     probe_format   |-> "none",  \* what the container-level probe gave
     probe_stream   |-> "none",  \* what the stream-level probe gave
     duration_from  |-> "none",  \* "format", "stream" or "default"
     transcodes     |-> 0,       \* ffmpeg runs of this call
     ffmpeg         |-> "none",  \* how the ffmpeg run ended
     cmd            |-> <<>>,    \* the ffmpeg command line of this call
     unlink         |-> "none",  \* how the unlink of the original ended
     fs0            |-> EmptyFs] \* the filesystem when the call began

CallIds == {1, 2}

\* the callers that run in the sequential specification
SeqCallers == {1}

Raise(frame, exc) == [frame EXCEPT !.pc = "raised", !.exc = exc]

Returns(frame, p) == [frame EXCEPT !.pc = "returned", !.ret = p]

-----------------------------------------------------------------------------
(* Initial state: a compressor constructed with some budget, an empty      *)
(* recording directory, nobody calling.                                    *)

\* OBSClient.__init__: no connection; OBS itself is not recording.  last
\* describes the latest method call on the client: the requests it sent,
\* what it returned or raised, and the state it found.
NoOp ==
    [op            |-> "none",
     queries       |-> 0,        \* get_record_status requests sent
     starts        |-> 0,        \* start_record requests sent
     stops         |-> 0,        \* stop_record requests sent
     connects      |-> 0,        \* ReqClient objects created
     exc           |-> "none",   \* the exception that escaped
     value         |-> FALSE,    \* what is_recording returned
     path          |-> NoPath,   \* what stop_recording returned
     was_connected |-> FALSE,    \* _client was set when the call began
     was_recording |-> FALSE]    \* OBS was recording when the call began

\* format is the container OBS is set to record in; pc is the request the
\* client is waiting on ("idle" between method calls).
ObsIdle ==
    [client |-> FALSE, recording |-> FALSE, format |-> ".mkv",
     pc |-> "idle", last |-> NoOp]

\* VideoRecordingBot.__init__: the recording task exists and waits; the
\* other fields describe the record-and-post cycle under way.
BotIdle ==
    [pc           |-> "off",
     closed       |-> FALSE,     \* is_closed()
     cancelled    |-> FALSE,     \* recording_task.cancel() was called
     close        |-> "none",    \* how far the latest close() got
     started      |-> FALSE,     \* record_video sent a start request
     failure      |-> "none",    \* what went wrong in this cycle
     prev_failure |-> "none",    \* what went wrong in the cycle before
     recorded     |-> NoPath,    \* the path record_video returned
     processed    |-> NoPath,    \* the path compress_if_needed returned
     published    |-> "none",    \* the outcome of channel.send
     had_file     |-> FALSE,     \* the processed file was there to send
     cleanup      |-> "none",    \* the outcome of _cleanup_video
     steps        |-> <<>>]      \* the steps of this cycle, in order

\* os.getenv answers None for a variable that is not set.
None == "None"

EmptyEnv ==
    [DISCORD_BOT_TOKEN  |-> None, DISCORD_CHANNEL_ID |-> None,
     OBS_HOST           |-> None, OBS_PORT           |-> None,
     OBS_PASSWORD       |-> None, RECORDING_DURATION |-> None,
     RECORDING_INTERVAL |-> None, VIDEO_MAX_SIZE_MB  |-> None]

NoConfig ==
    [discord_token |-> None, channel_id |-> 0, obs_host |-> None,
     obs_port |-> 0, obs_password |-> None, recording_duration |-> 0,
     recording_interval |-> 0, video_max_size_mb |-> 0]

\* No from_env call yet: the process environment, the .env file, and the
\* outcome of the call.
NoCfg ==
    [done |-> FALSE, environ |-> EmptyEnv, dotenv |-> EmptyEnv,
     exc |-> "none", error |-> "none", config |-> NoConfig]

NoCalc == [duration |-> 0, video_bitrate |-> 0, bitrate |-> 0, done |-> FALSE]

Init ==
    /\ obs = ObsIdle
    /\ bot = BotIdle
    /\ cfg = NoCfg
    /\ fs = EmptyFs
    /\ target_size_mb \in Budgets
    /\ call = [c \in CallIds |-> IdleCall]
    /\ calc = NoCalc

AllIdle == \A c \in CallIds : call[c].pc = "idle"

ExistingPaths(fsys) == {p \in AllPaths : Exists(fsys, p)}

\* The recorder leaves a new artifact in the directory.
RecorderWrites ==
    /\ AllIdle
    /\ Cardinality(ExistingPaths(fs)) < MaxFiles
    /\ \E p \in InputPaths, f \in ArtifactFiles :
          /\ ~Exists(fs, p)
          /\ fs' = [fs EXCEPT ![p] = f]
    /\ UNCHANGED <<target_size_mb, call, calc, obs, bot, cfg>>

\* bot._cleanup_video: the publisher's cleanup removes a file.
CleanupVideo ==
    /\ AllIdle
    /\ \E p \in ExistingPaths(fs) : fs' = [fs EXCEPT ![p] = NoFile]
    /\ UNCHANGED <<target_size_mb, call, calc, obs, bot, cfg>>

-----------------------------------------------------------------------------
(* compress_if_needed, up to its first external tool run *)

\* convert_to_mp4 up to the ffmpeg run: the existence check, the default
\* output path and the already-MP4 shortcut
ConvertToMp4Begin(frame, fsys) ==
    LET input_path == frame.video_path
        output_path == ConvertOutputPath(input_path)
    IN  IF ~Exists(fsys, input_path)
          THEN Raise(frame, "FileNotFoundError")
        ELSE IF Lower(input_path.suffix) = Mp4 /\ output_path = input_path
          THEN [frame EXCEPT !.processed_path = input_path, !.pc = "unlink"]
        ELSE [frame EXCEPT !.output_path = output_path, !.pc = "convert_ffmpeg"]

\* compress up to the first ffprobe run: the existence check and the
\* default output path
CompressBegin(frame, fsys) ==
    LET input_path == frame.video_path
    IN  IF ~Exists(fsys, input_path)
          THEN Raise(frame, "FileNotFoundError")
          ELSE [frame EXCEPT !.output_path = CompressOutputPath(input_path),
                             !.pc = "probe_format"]

\* the comparison with >= in place of >
NeedsCompressionAtLimit(fsys, video_path, threshold_mb) ==
    fsys[video_path].size >= threshold_mb * BytesPerMB

NeedsCompression(fsys, video_path, threshold_mb) ==
    fsys[video_path].size > threshold_mb * BytesPerMB

NeedsConversion(video_path, convert_to_mp4) ==
    convert_to_mp4 /\ Lower(video_path.suffix) # Mp4

CompressIfNeededBegin(fsys, size_mb, video_path, thr, convert_to_mp4) ==
    LET threshold_mb == IF thr.given THEN thr.mb ELSE size_mb
        frame == [IdleCall EXCEPT !.video_path = video_path,
                                  !.threshold_mb = threshold_mb,
                                  !.convert_to_mp4 = convert_to_mp4,
                                  !.fs0 = fsys]
    IN  IF ~Exists(fsys, video_path)
          THEN Raise(frame, "FileNotFoundError")    \* video_path.stat()
        ELSE IF /\ ~NeedsCompression(fsys, video_path, threshold_mb)
                /\ ~NeedsConversion(video_path, convert_to_mp4)
          THEN Returns([frame EXCEPT !.branch = "noop"], video_path)
        ELSE IF NeedsCompression(fsys, video_path, threshold_mb)
          THEN CompressBegin([frame EXCEPT !.branch = "compress"], fsys)
        ELSE ConvertToMp4Begin([frame EXCEPT !.branch = "convert"], fsys)

CompressIfNeeded(c) ==
    /\ call[c].pc = "idle"
    /\ \E video_path \in InputPaths, thr \in ThresholdArgs, conv \in BOOLEAN :
          call' = [call EXCEPT ![c] =
                      CompressIfNeededBegin(fs, target_size_mb, video_path, thr, conv)]
    /\ UNCHANGED <<fs, target_size_mb, calc, obs, bot, cfg>>

-----------------------------------------------------------------------------
(* _get_duration: the container-level probe, then the stream-level probe *)

\* float(duration_str) inside the try: a number is returned, anything else
\* (a non-zero exit, a ValueError of float) ends in the except branch
DurationOrDefault(out) == IF out.kind = "num" THEN out.val ELSE DefaultDuration

\* compress after _get_duration returned: _calculate_bitrate divides by the
\* duration, then ffmpeg is run with the bitrate
CompressWithDuration(frame, size_mb, duration) ==
    IF duration = 0
      THEN Raise([frame EXCEPT !.duration = duration], "ZeroDivisionError")
      ELSE [frame EXCEPT !.duration = duration,
                         !.bitrate = CalculateBitrate(size_mb, duration),
                         !.bitrate_budget = size_mb,
                         !.pc = "run_ffmpeg"]

\* what ffprobe can answer for a path: a missing file is a non-zero exit
ProbeOutcomesAt(fsys, p) ==
    IF Exists(fsys, p) THEN ProbeOutcomes(fsys[p]) ELSE {ProbeOut("error", 0)}

\* which return statement of _get_duration gave the duration
DurationFrom(out, tier) == IF out.kind = "num" THEN tier ELSE "default"

ProbeFormat(c) ==
    /\ call[c].pc = "probe_format"
    /\ \E out \in ProbeOutcomesAt(fs, call[c].video_path) :
          LET frame == [call[c] EXCEPT !.probes = @ + 1,
                                       !.probe_format = out.kind]
          IN  call' = [call EXCEPT ![c] =
                  IF HasDuration(out)    \* a non-zero exit goes to the except
                    THEN CompressWithDuration(
                             [frame EXCEPT !.duration_from = DurationFrom(out, "format")],
                             target_size_mb, DurationOrDefault(out))
                    ELSE [frame EXCEPT !.pc = "probe_stream"]]
    /\ UNCHANGED <<fs, target_size_mb, calc, obs, bot, cfg>>

ProbeStream(c) ==
    /\ call[c].pc = "probe_stream"
    /\ \E out \in ProbeOutcomesAt(fs, call[c].video_path) :
          LET frame == [call[c] EXCEPT !.probes = @ + 1,
                                       !.probe_stream = out.kind,
                                       !.duration_from = DurationFrom(out, "stream")]
          IN  call' = [call EXCEPT ![c] =
                  CompressWithDuration(frame, target_size_mb,
                      IF HasDuration(out) THEN DurationOrDefault(out)
                                          ELSE DefaultDuration)]
    /\ UNCHANGED <<fs, target_size_mb, calc, obs, bot, cfg>>

-----------------------------------------------------------------------------
(* The ffmpeg runs *)

\* what ffmpeg can do with an input: exit status 0 needs a readable input
FfmpegOutcomesAt(fsys, input_path) ==
    IF Exists(fsys, input_path) THEN FfmpegOutcomes ELSE {"fail"}

\* the filesystem after an ffmpeg run that was to write file f
FfmpegWrites(fsys, output_path, out, f) ==
    CASE out = "ok"           -> [fsys EXCEPT ![output_path] = f]
      [] out = "fail_partial" -> [fsys EXCEPT ![output_path] = File(0, 0)]
      [] OTHER                -> fsys

\* the except branch of a failed ffmpeg run: the log line decodes stderr
\* before the RuntimeError is raised
FfmpegFailed(frame, out) ==
    IF out = "fail_undecodable"
      THEN Raise(frame, "UnicodeDecodeError")
      ELSE Raise(frame, "RuntimeError")

NonZeroExit == {"fail", "fail_partial", "fail_undecodable"}

\* compress from _run_ffmpeg on, fsys being the filesystem after the run:
\* a non-zero exit ends in the except branch, an output path that does not
\* exist after the run is a RuntimeError, and the log line then stats the
\* output and the input
AfterRunFfmpeg(frame, fsys, out) ==
    IF out \in NonZeroExit
      THEN FfmpegFailed(frame, out)
    ELSE IF ~Exists(fsys, frame.output_path)
      THEN Raise(frame, "RuntimeError")
    ELSE IF ~Exists(fsys, frame.video_path)
      THEN Raise(frame, "FileNotFoundError")
    ELSE [frame EXCEPT !.processed_path = frame.output_path, !.pc = "unlink"]

RunFfmpeg(c) ==
    /\ call[c].pc = "run_ffmpeg"
    /\ \E out \in FfmpegOutcomesAt(fs, call[c].video_path) :
          LET frame == [call[c] EXCEPT
                           !.transcodes = @ + 1, !.ffmpeg = out,
                           !.cmd = RunFfmpegCmd(call[c].video_path,
                                                call[c].output_path,
                                                call[c].bitrate)]
              input == fs[frame.video_path]
              fsys  == FfmpegWrites(fs, frame.output_path, out,
                           File(CbrBytes(frame.bitrate, input.dur), input.dur))
          IN  /\ fs' = fsys
              /\ call' = [call EXCEPT ![c] = AfterRunFfmpeg(frame, fsys, out)]
    /\ UNCHANGED <<target_size_mb, calc, obs, bot, cfg>>

\* convert_to_mp4 from its ffmpeg run on: a non-zero exit ends in the
\* except branch, exit status 0 returns output_path
AfterConvertFfmpeg(frame, out) ==
    IF out \in NonZeroExit
      THEN FfmpegFailed(frame, out)
      ELSE [frame EXCEPT !.processed_path = frame.output_path, !.pc = "unlink"]

ConvertFfmpeg(c) ==
    /\ call[c].pc = "convert_ffmpeg"
    /\ \E out \in FfmpegOutcomesAt(fs, call[c].video_path) :
          LET frame == [call[c] EXCEPT
                           !.transcodes = @ + 1, !.ffmpeg = out,
                           !.cmd = ConvertCmd(call[c].video_path,
                                              call[c].output_path)]
              input == fs[frame.video_path]
              fsys  == FfmpegWrites(fs, frame.output_path, out,
                                    File(input.size, input.dur))
          IN  /\ fs' = fsys
              /\ call' = [call EXCEPT ![c] = AfterConvertFfmpeg(frame, out)]
    /\ UNCHANGED <<target_size_mb, calc, obs, bot, cfg>>

-----------------------------------------------------------------------------
(* compress_if_needed after compress or convert_to_mp4 returned *)

\* whether video_path.unlink() raised: the operating system refused, or
\* the file was no longer there
UnlinkRaised(fsys, video_path, out) ==
    out = "oserror" \/ ~Exists(fsys, video_path)

\* the filesystem after video_path.unlink()
UnlinkFs(fsys, video_path, out) ==
    IF UnlinkRaised(fsys, video_path, out)
      THEN fsys
      ELSE [fsys EXCEPT ![video_path] = NoFile]

\* an unlink outside any try/except: its exception escapes
AfterUnlinkUncaught(frame, raised) ==
    IF raised
      THEN Raise([frame EXCEPT !.unlink = "oserror"], "OSError")
      ELSE Returns([frame EXCEPT !.unlink = "ok"], frame.processed_path)

\* the frame after the try/except around unlink: the exception is logged
\* and processed_path is returned either way
AfterUnlink(frame, raised) ==
    Returns([frame EXCEPT !.unlink = IF raised THEN "oserror" ELSE "ok"],
            frame.processed_path)

DeleteOriginal(c) ==
    /\ call[c].pc = "unlink"
    /\ \E out \in UnlinkOutcomes :
          LET frame == call[c]
          IN  IF frame.processed_path # frame.video_path
                THEN /\ fs' = UnlinkFs(fs, frame.video_path, out)
                     /\ call' = [call EXCEPT ![c] =
                           AfterUnlink(frame,
                               UnlinkRaised(fs, frame.video_path, out))]
                ELSE /\ fs' = fs
                     /\ call' = [call EXCEPT ![c] =
                           Returns(frame, frame.processed_path)]
    /\ UNCHANGED <<target_size_mb, calc, obs, bot, cfg>>

\* the caller takes the result; the frame is gone
CallEnds(c) ==
    /\ call[c].pc \in {"returned", "raised"}
    /\ call' = [call EXCEPT ![c] = IdleCall]
    /\ UNCHANGED <<fs, target_size_mb, calc, obs, bot, cfg>>

-----------------------------------------------------------------------------
(* The sequential specification: one caller at a time *)

Next ==
    \/ RecorderWrites
    \/ CleanupVideo
    \/ \E c \in SeqCallers : CompressIfNeeded(c)
    \/ \E c \in SeqCallers : ProbeFormat(c)
    \/ \E c \in SeqCallers : ProbeStream(c)
    \/ \E c \in SeqCallers : RunFfmpeg(c)
    \/ \E c \in SeqCallers : ConvertFfmpeg(c)
    \/ \E c \in SeqCallers : DeleteOriginal(c)
    \/ \E c \in SeqCallers : CallEnds(c)

Spec == Init /\ [][Next]_vars

-----------------------------------------------------------------------------
(* _calculate_bitrate on its own: a compressor with any whole budget is    *)
(* asked for the bitrate of any positive duration.                         *)

InitBitrate ==
    /\ obs = ObsIdle
    /\ bot = BotIdle
    /\ cfg = NoCfg
    /\ fs = EmptyFs
    /\ call = [c \in CallIds |-> IdleCall]
    /\ target_size_mb \in 1..MaxBudgetMB
    /\ calc \in {[NoCalc EXCEPT !.duration = d] : d \in 1..MaxDuration}

CalculateBitrateCall ==
    /\ ~calc.done
    /\ calc' = [calc EXCEPT !.done = TRUE,
                            !.video_bitrate = VideoBitrate(target_size_mb, calc.duration),
                            !.bitrate = CalculateBitrate(target_size_mb, calc.duration)]
    /\ UNCHANGED <<fs, target_size_mb, call, obs, bot, cfg>>

NextBitrate == CalculateBitrateCall

SpecBitrate == InitBitrate /\ [][NextBitrate]_vars

-----------------------------------------------------------------------------

TypeOK ==
    /\ target_size_mb \in 1..(MaxBudgetMB + 1)
    /\ \A p \in AllPaths : fs[p] = NoFile \/ fs[p].size >= 0
    /\ \A c \in CallIds :
          call[c].pc \in {"idle", "probe_format", "probe_stream", "run_ffmpeg",
                          "convert_ffmpeg", "unlink", "returned", "raised"}
    /\ obs.client \in BOOLEAN /\ obs.recording \in BOOLEAN
    /\ obs.pc \in {"idle", "query", "start_request", "stop_request"}
    /\ bot.pc \in {"off", "setup_failed", "wait_ready", "cycle", "starting",
                   "recording", "stopping", "process", "publish",
                   "sleep_interval", "sleep_retry", "cancelled"}
    /\ bot.close \in {"none", "disconnect", "closed", "raised"}
    /\ cfg.done \in BOOLEAN

-----------------------------------------------------------------------------
(* Properties of compress_if_needed (the spec's process), stated on the    *)
(* frame of a call that has returned or raised.                            *)

OnDisk(fsys, p) == fsys[p] # NoFile

Done(c) == call[c].pc \in {"returned", "raised"}

\* C1: a call never returns a path that is not on disk when it returns: it
\* returns a path to an existing file or it raises.
C1_ReturnedPathExists ==
    \A c \in CallIds :
        call[c].pc = "returned" => OnDisk(fs, call[c].ret)

\* C2: when ffmpeg exits non-zero, on the shrink path or on the format-only
\* path, the call raises RuntimeError, returns no path, and the original
\* file is on disk afterwards, as it was.
C2_ToolFailureRaises ==
    \A c \in CallIds :
        call[c].ffmpeg \in {"fail", "fail_partial", "fail_undecodable"} =>
            /\ call[c].pc = "raised"
            /\ call[c].exc = "RuntimeError"
            /\ call[c].ret = NoPath
            /\ OnDisk(fs, call[c].video_path)
            /\ fs[call[c].video_path] = call[c].fs0[call[c].video_path]

\* C3: for a file not above the budget whose extension is .mp4 the call
\* returns its input path, runs neither ffprobe nor ffmpeg, and leaves the
\* filesystem as it found it.
C3_Idempotence ==
    \A c \in CallIds :
        /\ call[c].pc # "idle"
        /\ OnDisk(call[c].fs0, call[c].video_path)
        /\ call[c].fs0[call[c].video_path].size <= call[c].threshold_mb * BytesPerMB
        /\ call[c].video_path.suffix = Mp4
        => /\ call[c].pc = "returned"
           /\ call[c].ret = call[c].video_path
           /\ call[c].probes = 0
           /\ call[c].transcodes = 0
           /\ fs = call[c].fs0

C3_Witness ==
    \E c \in CallIds :
        /\ call[c].pc = "returned"
        /\ call[c].video_path.suffix = Mp4
        /\ call[c].fs0[call[c].video_path].size = call[c].threshold_mb * BytesPerMB
        /\ call[c].ret = call[c].video_path

\* C4: when a call returns a path other than its input and the unlink of
\* the original did not fail, the original is gone and the returned path
\* is on disk.
C4_OriginalReplaced ==
    \A c \in CallIds :
        /\ call[c].pc = "returned"
        /\ call[c].ret # call[c].video_path
        /\ call[c].unlink # "oserror"
        => /\ ~OnDisk(fs, call[c].video_path)
           /\ OnDisk(fs, call[c].ret)

\* C5: when the unlink of the original raises after ffmpeg succeeded, the
\* call returns the new path without raising and the original stays on
\* disk.
C5_CleanupBestEffort ==
    \A c \in CallIds :
        call[c].unlink = "oserror" =>
            /\ call[c].pc = "returned"
            /\ call[c].exc = "none"
            /\ call[c].ret = call[c].output_path
            /\ call[c].ret # call[c].video_path
            /\ OnDisk(fs, call[c].video_path)

C5_Witness ==
    \E c \in CallIds :
        /\ call[c].unlink = "oserror"
        /\ call[c].ffmpeg = "ok"
        /\ call[c].pc = "returned"

\* C6: when the input path does not exist the call raises
\* FileNotFoundError at once: no ffprobe run, no ffmpeg run, and the
\* filesystem is unchanged.
C6_MissingInput ==
    \A c \in CallIds :
        call[c].pc # "idle" /\ ~OnDisk(call[c].fs0, call[c].video_path) =>
            /\ call[c].pc = "raised"
            /\ call[c].exc = "FileNotFoundError"
            /\ call[c].probes = 0
            /\ call[c].transcodes = 0
            /\ fs = call[c].fs0

C6_Witness ==
    \E c \in CallIds :
        /\ call[c].pc = "raised"
        /\ call[c].exc = "FileNotFoundError"
        /\ call[c].video_path.suffix = Mp4
        /\ \E p \in AllPaths : OnDisk(fs, p)

\* C7: only FileNotFoundError (input missing) and RuntimeError (ffmpeg
\* failed or wrote nothing) escape a call, whatever ffprobe printed and
\* however the unlink ended.
C7_OnlyTwoFailures ==
    \A c \in CallIds :
        call[c].exc \in {"none", "FileNotFoundError", "RuntimeError"}

-----------------------------------------------------------------------------
(* Properties of _calculate_bitrate *)

\* target_bits in kbit, times ten as durations are tenths of a second:
\* floor(budget * 1024 * 1024 * 8 * 0.95 * 10 / 1000)
TargetKbitX10(size_mb) == (size_mb * 79691776) \div 1000

\* C8: for a budget > 0 and a duration > 0 the bitrate handed to ffmpeg is
\* within [500, 5000] kbit/s; it is the ceiling when
\* target_bits / duration - 128000 is at or above 5000000, the floor when
\* that is below 500000, and otherwise that value in kbit/s, truncated:
\* (k + 128) * duration <= target kbit < (k + 129) * duration.
C8_BitrateClamp ==
    calc.done /\ target_size_mb > 0 /\ calc.duration > 0 =>
        LET d  == calc.duration
            k  == calc.bitrate
            tk == TargetKbitX10(target_size_mb)
        IN  /\ 500 <= k /\ k <= 5000
            /\ tk >= 5128 * d => k = 5000
            /\ tk < 628 * d => k = 500
            /\ (628 * d <= tk /\ tk < 5128 * d) =>
                   ((k + 128) * d <= tk /\ tk < (k + 129) * d)

C8_Witness ==
    /\ calc.done
    /\ target_size_mb = DefaultTargetSizeMB
    /\ calc.bitrate = 500
    /\ calc.duration > 3000

\* C9 as stated: for 30 s and the default 25 MB budget the computed video
\* bitrate is strictly between MIN_BITRATE and MAX_BITRATE.
C9_NormalDurationBetweenBounds ==
    /\ calc.done
    /\ target_size_mb = DefaultTargetSizeMB
    /\ calc.duration = 30 * DsPerSecond
    => MinBitrate < calc.video_bitrate /\ calc.video_bitrate < MaxBitrate

\* C9 amended: for 30 s and the default 25 MB budget the computed video
\* bitrate is MAX_BITRATE, the ceiling is hit; with that budget it is
\* strictly between the two bounds exactly for durations from 38.9 s to
\* 317.2 s.
C9_NormalDurationHitsCeiling ==
    calc.done /\ target_size_mb = DefaultTargetSizeMB =>
        /\ calc.duration = 30 * DsPerSecond => calc.video_bitrate = MaxBitrate
        /\ (MinBitrate < calc.video_bitrate /\ calc.video_bitrate < MaxBitrate)
               <=> (389 <= calc.duration /\ calc.duration <= 3172)

C9_Witness ==
    /\ calc.done
    /\ target_size_mb = DefaultTargetSizeMB
    /\ calc.duration = 30 * DsPerSecond
    /\ calc.bitrate = 5000

-----------------------------------------------------------------------------
(* The size of a shrunk file under a constant-bitrate encoder *)

\* a call that shrank a file over the compressor's budget and returned what
\* the encoder wrote
ShrunkOverBudget(c) ==
    /\ call[c].pc = "returned"
    /\ call[c].branch = "compress"
    /\ call[c].ffmpeg = "ok"
    /\ call[c].fs0[call[c].video_path].size > target_size_mb * BytesPerMB

\* C10 as stated: the output of a successful shrink is no larger than the
\* budget, for every duration.
C10_OutputWithinBudget ==
    \A c \in CallIds :
        ShrunkOverBudget(c) =>
            fs[call[c].ret].size <= target_size_mb * BytesPerMB

\* C10 amended: the output of a successful shrink is no larger than the
\* budget when the floor does not raise the bitrate
\* (target_bits / duration - 128000 >= 500000) and the duration used,
\* probed or default, is not shorter than the recording.
C10_OutputWithinBudgetUnlessFloored ==
    \A c \in CallIds :
        /\ ShrunkOverBudget(c)
        /\ call[c].duration >= call[c].fs0[call[c].video_path].dur
        /\ TargetKbitX10(target_size_mb) >= 628 * call[c].duration
        => fs[call[c].ret].size <= target_size_mb * BytesPerMB

C10_Witness ==
    \E c \in CallIds :
        /\ ShrunkOverBudget(c)
        /\ call[c].duration = call[c].fs0[call[c].video_path].dur
        /\ call[c].bitrate > 500 /\ call[c].bitrate < 5000
        /\ fs[call[c].ret].size > 0

-----------------------------------------------------------------------------
(* Properties of the probing, the output path and the threshold *)

UnusableProbe == {"empty", "na", "error", "text"}

\* C11: once _get_duration has returned, the stream-level probe was run
\* whenever the container-level probe gave no usable duration (empty, N/A,
\* tool error, unparseable), its value was returned when usable, and the
\* default was returned only after both probes were run and failed.
C11_TwoTierProbing ==
    \A c \in CallIds :
        call[c].duration_from # "none" =>
            /\ call[c].probe_format \in UnusableProbe =>
                   call[c].probe_stream # "none"
            /\ call[c].probe_stream = "num" => call[c].duration_from = "stream"
            /\ call[c].duration_from = "default" =>
                   /\ call[c].probe_format \in UnusableProbe
                   /\ call[c].probe_stream \in UnusableProbe

\* C12: whenever a call runs ffmpeg, on the shrink branch or on the
\* format-only branch, the output path is <stem>_processed.mp4 next to the
\* input.
C12_ProcessedOutputPath ==
    \A c \in CallIds :
        call[c].transcodes > 0 =>
            call[c].output_path =
                Path(Append(call[c].video_path.stem, "_processed"), Mp4)

\* C13: after compress_if_needed(video_path, threshold_mb = t) the
\* instance's target_size_mb equals t.
C13_ThresholdStored ==
    \A c \in CallIds :
        Done(c) => target_size_mb = call[c].threshold_mb

\* a finished call, with the default convert_to_mp4, on a file that was
\* there
Processed(c) ==
    /\ Done(c)
    /\ call[c].convert_to_mp4
    /\ OnDisk(call[c].fs0, call[c].video_path)

OverThreshold(c) ==
    call[c].fs0[call[c].video_path].size > call[c].threshold_mb * BytesPerMB

\* C19: for a non-compliant file a call runs ffmpeg exactly once: the
\* bitrate-budgeted run when the size is over the budget, whatever the
\* extension, the format-only run when only the extension differs from
\* .mp4; ffprobe is run only on the shrink branch and always before ffmpeg.
C19_OneTranscode ==
    \A c \in CallIds :
        /\ call[c].transcodes <= 1
        /\ call[c].pc \in {"probe_format", "probe_stream"} => call[c].transcodes = 0
        /\ call[c].probes > 0 => call[c].branch = "compress"
        /\ Processed(c) /\ OverThreshold(c) =>
               /\ call[c].branch = "compress"
               /\ call[c].transcodes = 1
               /\ call[c].probes >= 1
        /\ Processed(c) /\ ~OverThreshold(c)
                        /\ Lower(call[c].video_path.suffix) # Mp4 =>
               /\ call[c].branch = "convert"
               /\ call[c].transcodes = 1
               /\ call[c].probes = 0

\* C20: whenever a call runs ffmpeg, the output path it hands to ffmpeg is
\* not its input path, whatever the name and extension of the input.
C20_OutputNotInput ==
    \A c \in CallIds :
        call[c].transcodes > 0 =>
            /\ call[c].output_path # NoPath
            /\ call[c].output_path # call[c].video_path

C20_Witness ==
    \E c \in CallIds :
        /\ call[c].transcodes > 0
        /\ call[c].branch = "compress"
        /\ call[c].video_path.suffix = Mp4
        /\ call[c].ffmpeg = "ok"

-----------------------------------------------------------------------------
(* The concurrent specification: two callers, each running the plain       *)
(* compress_if_needed(video_path) of the bot once, never both on the same  *)
(* input path; their tool runs interleave in any order.                    *)

\* the input paths of the calls in progress other than c
InputsInProgress(c) ==
    {call[d].video_path : d \in {e \in CallIds \ {c} : call[e].pc # "idle"}}

CompressIfNeededDistinct(c) ==
    /\ call[c].pc = "idle"
    /\ \E video_path \in InputPaths \ InputsInProgress(c) :
          /\ Exists(fs, video_path)
          /\ call' = [call EXCEPT ![c] =
                CompressIfNeededBegin(fs, target_size_mb, video_path,
                                      ThresholdArg(FALSE, 0), TRUE)]
    /\ UNCHANGED <<fs, target_size_mb, calc, obs, bot, cfg>>

\* two recordings on disk, each under or over the budget
ConcArtifacts == {File(10 * BytesPerMB, 600), File(25 * BytesPerMB + 1, 600)}

InitConc ==
    /\ obs = ObsIdle
    /\ bot = BotIdle
    /\ cfg = NoCfg
    /\ target_size_mb = DefaultTargetSizeMB
    /\ call = [c \in CallIds |-> IdleCall]
    /\ calc = NoCalc
    /\ \E p \in InputPaths :
          \E q \in InputPaths \ {p} :
              \E f \in ConcArtifacts, g \in ConcArtifacts :
                  fs = [EmptyFs EXCEPT ![p] = f, ![q] = g]

NextConc ==
    \/ \E c \in CallIds : CompressIfNeededDistinct(c)
    \/ \E c \in CallIds : ProbeFormat(c)
    \/ \E c \in CallIds : ProbeStream(c)
    \/ \E c \in CallIds : RunFfmpeg(c)
    \/ \E c \in CallIds : ConvertFfmpeg(c)
    \/ \E c \in CallIds : DeleteOriginal(c)

SpecConc == InitConc /\ [][NextConc]_vars

\* the paths a call in progress owns: its input and its output
OwnPaths(c) == {call[c].video_path, call[c].output_path} \ {NoPath}

\* a step in which some file changes while call d is in progress and it is
\* not d that takes the step
TouchedByOther(d, p) ==
    /\ fs'[p] # fs[p]
    /\ call[d].pc # "idle"
    /\ call'[d] = call[d]

\* C14: two calls running concurrently on distinct input paths do not
\* interfere: no step of one call writes, overwrites or deletes a file that
\* is the other call's input or output, and each call that produced a file
\* returns the path of its own output.
C14_NoInterference ==
    /\ [][\A d \in CallIds : \A p \in AllPaths :
              TouchedByOther(d, p) => p \notin OwnPaths(d)]_vars
    /\ [](\A c \in CallIds :
              call[c].pc = "returned" /\ call[c].branch # "noop" =>
                  call[c].ret = call[c].output_path)


-----------------------------------------------------------------------------
(* OBSClient (obs_client.py).  OBS answers each request or refuses it      *)
(* (OBSSDKError); the person at OBS can start and stop recording too.      *)

RequestOutcomes == {"ok", "error"}

ConnectOutcomes == {"ok", "refused"}

\* The containers OBS may be set to record in, the path it gives a
\* finished recording, and the recordings it makes: one under and one over
\* the default budget.
RecordingFormats == Suffixes

RecordingPath(o) == Path(<<"rec">>, o.format)

RecordedFiles == {File(10 * BytesPerMB, 600), File(25 * BytesPerMB + 1, 600)}

\* is_recording, connected: what get_record_status says; an OBSSDKError is
\* logged and answered with False.
IsRecordingValue(o, q) == IF q = "ok" THEN o.recording ELSE FALSE

Begin(o, op) ==
    [NoOp EXCEPT !.op = op, !.was_connected = o.client,
                 !.was_recording = o.recording]

\* the method is over: it returned or raised
Ends(o) == [o EXCEPT !.pc = "idle"]

EndsWith(o, exc) == [o EXCEPT !.pc = "idle", !.last.exc = exc]

\* the method sends get_record_status and waits for the answer
SendsQuery(o) == [o EXCEPT !.pc = "query", !.last.queries = @ + 1]

\* connect: a second connect only warns; a refused connection re-raises.
Connect(o, k) ==
    IF o.client THEN [o EXCEPT !.last = Begin(o, "connect")]
    ELSE IF k = "ok"
         THEN [o EXCEPT !.client = TRUE,
                        !.last = [Begin(o, "connect") EXCEPT !.connects = 1]]
         ELSE [o EXCEPT !.last = [Begin(o, "connect") EXCEPT
                                      !.connects = 1, !.exc = "ConnectionError"]]

\* is_recording up to its request
IsRecording(o) ==
    IF ~o.client
      THEN EndsWith([o EXCEPT !.last = Begin(o, "is_recording")], "RuntimeError")
      ELSE SendsQuery([o EXCEPT !.last = Begin(o, "is_recording")])

\* The mutant of StartRecording: no check that a connection is held.
StartRecordingUnguarded(o) ==
    SendsQuery([o EXCEPT !.last = Begin(o, "start")])

\* start_recording up to its first request
StartRecording(o) ==
    IF ~o.client
      THEN EndsWith([o EXCEPT !.last = Begin(o, "start")], "RuntimeError")
      ELSE SendsQuery([o EXCEPT !.last = Begin(o, "start")])

\* stop_recording up to its first request
StopRecording(o) ==
    IF ~o.client
      THEN EndsWith([o EXCEPT !.last = Begin(o, "stop")], "RuntimeError")
      ELSE SendsQuery([o EXCEPT !.last = Begin(o, "stop")])

\* disconnect up to its first request; without a connection it returns
Disconnect(o) ==
    IF ~o.client
      THEN Ends([o EXCEPT !.last = Begin(o, "disconnect")])
      ELSE SendsQuery([o EXCEPT !.last = Begin(o, "disconnect")])

\* stop_recording after its status query was answered with value
StopAfterStatus(o, value) ==
    IF ~value
      THEN EndsWith(o, "RuntimeError")        \* "Not currently recording"
      ELSE [o EXCEPT !.pc = "stop_request", !.last.stops = @ + 1]

\* get_record_status is answered (q): the method goes on to its next
\* request or to its end.  In disconnect the first query is its own and
\* the second is the one of stop_recording, whose RuntimeError is not
\* caught and leaves before _client is cleared.
AfterStatus(o, q) ==
    LET value == IsRecordingValue(o, q)
    IN  CASE o.last.op = "is_recording" -> Ends([o EXCEPT !.last.value = value])
          [] o.last.op = "start" ->
                IF value THEN Ends(o)         \* "Already recording"
                         ELSE [o EXCEPT !.pc = "start_request", !.last.starts = @ + 1]
          [] o.last.op = "stop" -> StopAfterStatus(o, value)
          [] OTHER ->
                IF o.last.queries = 1
                  THEN IF value THEN SendsQuery(o)
                                ELSE Ends([o EXCEPT !.client = FALSE])
                  ELSE StopAfterStatus(o, value)

\* start_record is answered (r): OBS refuses it when its output is running
AfterStartRecord(o, r) ==
    IF r = "ok" /\ ~o.recording
      THEN Ends([o EXCEPT !.recording = TRUE])
      ELSE EndsWith(o, "OBSSDKError")

\* stop_record is answered (s): its result carries the output path; in
\* disconnect an OBSSDKError is ignored and _client is cleared either way
AfterStopRecord(o, s) ==
    LET stopped == s = "ok" /\ o.recording
        after == IF stopped
                   THEN [o EXCEPT !.recording = FALSE,
                                  !.last.path = RecordingPath(o)]
                   ELSE o
    IN  IF o.last.op = "disconnect"
          THEN Ends([after EXCEPT !.client = FALSE])
          ELSE IF stopped THEN Ends(after) ELSE EndsWith(after, "OBSSDKError")

\* A finished recording is on disk at the path stop_record reports.
RecordingWritten(fsys, o, f) ==
    IF o.last.path # NoPath THEN [fsys EXCEPT ![o.last.path] = f] ELSE fsys

ObsConnect ==
    /\ obs.pc = "idle"
    /\ \E k \in ConnectOutcomes : obs' = Connect(obs, k)
    /\ UNCHANGED <<fs, target_size_mb, call, calc, bot, cfg>>

ObsIsRecording ==
    /\ obs.pc = "idle"
    /\ obs' = IsRecording(obs)
    /\ UNCHANGED <<fs, target_size_mb, call, calc, bot, cfg>>

ObsStartRecording ==
    /\ obs.pc = "idle"
    /\ obs' = StartRecording(obs)
    /\ UNCHANGED <<fs, target_size_mb, call, calc, bot, cfg>>

ObsStopRecording ==
    /\ obs.pc = "idle"
    /\ obs' = StopRecording(obs)
    /\ UNCHANGED <<fs, target_size_mb, call, calc, bot, cfg>>

ObsDisconnect ==
    /\ obs.pc = "idle"
    /\ obs' = Disconnect(obs)
    /\ UNCHANGED <<fs, target_size_mb, call, calc, bot, cfg>>

\* OBS answers the request the client waits on.
ObsAnswersStatus ==
    /\ obs.pc = "query"
    /\ \E q \in RequestOutcomes : obs' = AfterStatus(obs, q)
    /\ UNCHANGED <<fs, target_size_mb, call, calc, bot, cfg>>

ObsAnswersStart ==
    /\ obs.pc = "start_request"
    /\ \E r \in RequestOutcomes : obs' = AfterStartRecord(obs, r)
    /\ UNCHANGED <<fs, target_size_mb, call, calc, bot, cfg>>

ObsAnswersStop ==
    /\ obs.pc = "stop_request"
    /\ \E s \in RequestOutcomes, f \in RecordedFiles :
          /\ obs' = AfterStopRecord(obs, s)
          /\ fs' = RecordingWritten(fs, obs', f)
    /\ UNCHANGED <<target_size_mb, call, calc, bot, cfg>>

\* The person at OBS starts or stops recording by hand.
ObsOperator ==
    /\ obs' = [obs EXCEPT !.recording = ~@]
    /\ UNCHANGED <<fs, target_size_mb, call, calc, bot, cfg>>

NextObs ==
    \/ ObsConnect
    \/ ObsIsRecording
    \/ ObsStartRecording
    \/ ObsStopRecording
    \/ ObsDisconnect
    \/ ObsAnswersStatus
    \/ ObsAnswersStart
    \/ ObsAnswersStop
    \/ ObsOperator

\* Everything at rest, OBS set to some recording format.
InitObs ==
    /\ fs = EmptyFs
    /\ target_size_mb = DefaultTargetSizeMB
    /\ call = [c \in CallIds |-> IdleCall]
    /\ calc = NoCalc
    /\ \E format \in RecordingFormats : obs = [ObsIdle EXCEPT !.format = format]
    /\ bot = BotIdle
    /\ cfg = NoCfg

SpecObs == InitObs /\ [][NextObs]_vars

\* C17: start_recording and stop_recording are idempotent against
\* duplicate calls: on a connected client each queries the recording state
\* first; start_recording while OBS is recording sends no start request and
\* succeeds; stop_recording while OBS is not recording sends no stop
\* request and does not fail.
C17_StartStopIdempotent ==
    /\ [](obs.last.op \in {"start", "stop"} /\ obs.last.was_connected =>
             obs.last.queries >= 1)
    /\ [][/\ obs.pc = "query" /\ obs'.pc # "query"
             /\ obs.last.op = "start" /\ obs.recording =>
                    /\ obs'.pc = "idle"
                    /\ obs'.last.starts = 0
                    /\ obs'.last.exc = "none"
          /\ obs.pc = "query" /\ obs'.pc # "query"
             /\ obs.last.op = "stop" /\ ~obs.recording =>
                    /\ obs'.pc = "idle"
                    /\ obs'.last.stops = 0
                    /\ obs'.last.exc = "none"]_vars


-----------------------------------------------------------------------------
(* Config.from_env (config.py).  Environment values are strings; floats    *)
(* are kept in tenths (seconds for the durations, MB for the size).        *)

\* int(s) on the texts of the environments below: surrounding blanks and a
\* sign are accepted, anything else raises ValueError.
IntOf ==
    ("4455" :> 4455) @@ ("4456" :> 4456) @@ ("123" :> 123) @@
    (" 42 " :> 42) @@ ("-5" :> (0 - 5))

\* float(s), in tenths.
FloatOf ==
    ("30" :> 300) @@ ("1800" :> 18000) @@ ("25" :> 250) @@
    ("2.5" :> 25) @@ ("60" :> 600) @@ ("10" :> 100)

IsInt(s) == s \in DOMAIN IntOf

IsFloat(s) == s \in DOMAIN FloatOf

\* os.getenv(name, default)
Getenv(value, default) == IF value = None THEN default ELSE value

\* load_dotenv(): a variable of the .env file is added to os.environ
\* unless the process already has it.
LoadDotenv(environ, dotenv) ==
    [v \in DOMAIN environ |-> IF environ[v] # None THEN environ[v] ELSE dotenv[v]]

\* not s, for s a string or None
Falsy(s) == s = None \/ s = ""

Failure(message) == [exc |-> "ValueError", error |-> message, config |-> NoConfig]

\* The mutant of FromEnv: the channel id is looked at before the token.
FromEnvChannelFirst(env) ==
    LET port     == Getenv(env.OBS_PORT, "4455")
        duration == Getenv(env.RECORDING_DURATION, "30")
        interval == Getenv(env.RECORDING_INTERVAL, "1800")
        max_size == Getenv(env.VIDEO_MAX_SIZE_MB, "25")
    IN  IF Falsy(env.DISCORD_CHANNEL_ID) THEN Failure("DISCORD_CHANNEL_ID is not set")
        ELSE IF Falsy(env.DISCORD_BOT_TOKEN) THEN Failure("DISCORD_BOT_TOKEN is not set")
        ELSE IF ~IsInt(env.DISCORD_CHANNEL_ID) THEN Failure("Invalid DISCORD_CHANNEL_ID")
        ELSE IF ~IsInt(port) THEN Failure("invalid literal for int")
        ELSE IF ~IsFloat(duration) \/ ~IsFloat(interval) \/ ~IsFloat(max_size)
             THEN Failure("could not convert string to float")
        ELSE [exc |-> "none", error |-> "none",
              config |-> [discord_token      |-> env.DISCORD_BOT_TOKEN,
                          channel_id         |-> IntOf[env.DISCORD_CHANNEL_ID],
                          obs_host           |-> Getenv(env.OBS_HOST, "localhost"),
                          obs_port           |-> IntOf[port],
                          obs_password       |-> env.OBS_PASSWORD,
                          recording_duration |-> FloatOf[duration],
                          recording_interval |-> FloatOf[interval],
                          video_max_size_mb  |-> FloatOf[max_size]]]

\* from_env on the environment load_dotenv left: the checks in the code's
\* order, then the constructor's arguments, each int() and float() of
\* which may raise ValueError.
FromEnv(env) ==
    LET port     == Getenv(env.OBS_PORT, "4455")
        duration == Getenv(env.RECORDING_DURATION, "30")
        interval == Getenv(env.RECORDING_INTERVAL, "1800")
        max_size == Getenv(env.VIDEO_MAX_SIZE_MB, "25")
    IN  IF Falsy(env.DISCORD_BOT_TOKEN) THEN Failure("DISCORD_BOT_TOKEN is not set")
        ELSE IF Falsy(env.DISCORD_CHANNEL_ID) THEN Failure("DISCORD_CHANNEL_ID is not set")
        ELSE IF ~IsInt(env.DISCORD_CHANNEL_ID) THEN Failure("Invalid DISCORD_CHANNEL_ID")
        ELSE IF ~IsInt(port) THEN Failure("invalid literal for int")
        ELSE IF ~IsFloat(duration) \/ ~IsFloat(interval) \/ ~IsFloat(max_size)
             THEN Failure("could not convert string to float")
        ELSE [exc |-> "none", error |-> "none",
              config |-> [discord_token      |-> env.DISCORD_BOT_TOKEN,
                          channel_id         |-> IntOf[env.DISCORD_CHANNEL_ID],
                          obs_host           |-> Getenv(env.OBS_HOST, "localhost"),
                          obs_port           |-> IntOf[port],
                          obs_password       |-> env.OBS_PASSWORD,
                          recording_duration |-> FloatOf[duration],
                          recording_interval |-> FloatOf[interval],
                          video_max_size_mb  |-> FloatOf[max_size]]]

\* The dataclass defaults of Config.
ConfigDefaults ==
    [obs_host |-> "localhost", obs_port |-> 4455, obs_password |-> None,
     recording_duration |-> 300, recording_interval |-> 18000,
     video_max_size_mb |-> 250]

Environments ==
    [DISCORD_BOT_TOKEN  : {None, "", "tok"},
     DISCORD_CHANNEL_ID : {None, "", "abc", "12.5", "123", " 42 "},
     OBS_HOST           : {None, "obs.lan"},
     OBS_PORT           : {None, "4456", "abc", ""},
     OBS_PASSWORD       : {None, "pw"},
     RECORDING_DURATION : {None, "2.5", "x"},
     RECORDING_INTERVAL : {None, "60"},
     VIDEO_MAX_SIZE_MB  : {None, "10", ""}]

DotenvFiles ==
    {EmptyEnv,
     [EmptyEnv EXCEPT !.DISCORD_BOT_TOKEN = "filetok", !.RECORDING_DURATION = "60"]}

InitConfig ==
    /\ fs = EmptyFs
    /\ target_size_mb = DefaultTargetSizeMB
    /\ call = [c \in CallIds |-> IdleCall]
    /\ calc = NoCalc
    /\ obs = ObsIdle
    /\ bot = BotIdle
    /\ \E e \in Environments, d \in DotenvFiles :
          cfg = [NoCfg EXCEPT !.environ = e, !.dotenv = d]

ConfigFromEnv ==
    /\ ~cfg.done
    /\ LET env == LoadDotenv(cfg.environ, cfg.dotenv)
           res == FromEnv(env)
       IN  cfg' = [cfg EXCEPT !.done = TRUE, !.environ = env, !.exc = res.exc,
                              !.error = res.error, !.config = res.config]
    /\ UNCHANGED <<fs, target_size_mb, call, calc, obs, bot>>

NextConfig == ConfigFromEnv

SpecConfig == InitConfig /\ [][NextConfig]_vars

\* What the claims call a missing or empty variable, an integer and a number.
Missing(s) == s \in {None, ""}

IntegerTexts == {"4455", "4456", "123", " 42 ", "-5"}

NumberTexts == {"30", "1800", "25", "2.5", "60", "10"}

RequiredValid ==
    /\ ~Missing(cfg.environ.DISCORD_BOT_TOKEN)
    /\ ~Missing(cfg.environ.DISCORD_CHANNEL_ID)
    /\ cfg.environ.DISCORD_CHANNEL_ID \in IntegerTexts

RequiredRejected ==
    /\ ~RequiredValid => cfg.exc = "ValueError" /\ cfg.config = NoConfig
    /\ Missing(cfg.environ.DISCORD_BOT_TOKEN) =>
           cfg.error = "DISCORD_BOT_TOKEN is not set"

UnsetAtDefault ==
    /\ cfg.exc = "none"
    /\ cfg.config # NoConfig
    /\ cfg.config.discord_token = cfg.environ.DISCORD_BOT_TOKEN
    /\ cfg.environ.OBS_HOST = None => cfg.config.obs_host = ConfigDefaults.obs_host
    /\ cfg.environ.OBS_PORT = None => cfg.config.obs_port = ConfigDefaults.obs_port
    /\ cfg.environ.OBS_PASSWORD = None =>
           cfg.config.obs_password = ConfigDefaults.obs_password
    /\ cfg.environ.RECORDING_DURATION = None =>
           cfg.config.recording_duration = ConfigDefaults.recording_duration
    /\ cfg.environ.RECORDING_INTERVAL = None =>
           cfg.config.recording_interval = ConfigDefaults.recording_interval
    /\ cfg.environ.VIDEO_MAX_SIZE_MB = None =>
           cfg.config.video_max_size_mb = ConfigDefaults.video_max_size_mb

OptionalsParse ==
    /\ cfg.environ.OBS_PORT \in IntegerTexts \cup {None}
    /\ cfg.environ.RECORDING_DURATION \in NumberTexts \cup {None}
    /\ cfg.environ.RECORDING_INTERVAL \in NumberTexts \cup {None}
    /\ cfg.environ.VIDEO_MAX_SIZE_MB \in NumberTexts \cup {None}

\* C18 as stated: from_env raises ValueError and returns no Config when
\* the token or the channel id is missing or empty or the channel id is
\* not an integer, the token being checked first; when both are valid a
\* Config is returned with every unset optional variable at its default.
C18_FromEnvAsStated ==
    cfg.done => /\ RequiredRejected
                /\ RequiredValid => UnsetAtDefault

\* C18, amended: the same, where a Config is returned when both required
\* variables are valid and every optional numeric variable that is set
\* parses; an optional numeric variable that does not parse is a ValueError
\* too.
C18_FromEnv ==
    cfg.done => /\ RequiredRejected
                /\ RequiredValid /\ OptionalsParse => UnsetAtDefault
                /\ RequiredValid /\ ~OptionalsParse =>
                       cfg.exc = "ValueError" /\ cfg.config = NoConfig

C18_Witness ==
    /\ cfg.done
    /\ RequiredValid
    /\ cfg.environ.OBS_PORT = None
    /\ cfg.environ.VIDEO_MAX_SIZE_MB = "10"
    /\ cfg.config.obs_port = 4455
    /\ cfg.config.video_max_size_mb = 100


-----------------------------------------------------------------------------
(* VideoRecordingBot (bot.py): setup_hook, the recording task with its     *)
(* record-and-post cycle, and close.  The task runs on the event loop, so  *)
(* close can only come in where the task awaits.                           *)

BotCaller == 1

Channels == {"text", "missing"}

PublishOutcomes == {"ok", "fail"}

\* channel.send with discord.File(video_path): a missing file cannot be
\* opened.
PublishOutcomesAt(fsys, p) == IF Exists(fsys, p) THEN PublishOutcomes ELSE {"fail"}

\* while not self.is_closed(): the next _record_and_post starts.
NewCycle(b) == [BotIdle EXCEPT !.pc = "cycle", !.prev_failure = b.failure]

\* _record_and_post returns early; recording_task sleeps the interval.
CycleReturns(b, failure) == [b EXCEPT !.pc = "sleep_interval", !.failure = failure]

\* The mutant of AfterProcess: the task has no except around the cycle.
AfterProcessUncaught(b, frame) ==
    IF frame.pc = "raised"
      THEN [b EXCEPT !.pc = "dead", !.failure = "process"]
      ELSE [b EXCEPT !.pc = "publish", !.processed = frame.ret,
                     !.steps = Append(@, "publish")]

\* The mutant of AfterProcess: the recording is sent, not what
\* compress_if_needed returned.
AfterProcessSendsRecording(b, frame) ==
    IF frame.pc = "raised"
      THEN [b EXCEPT !.pc = "sleep_retry", !.failure = "process"]
      ELSE [b EXCEPT !.pc = "publish", !.processed = b.recorded,
                     !.steps = Append(@, "publish")]

\* compress_if_needed is over: its exception leaves _record_and_post and is
\* caught in recording_task, which sleeps 60 s; its result is sent.
AfterProcess(b, frame) ==
    IF frame.pc = "raised"
      THEN [b EXCEPT !.pc = "sleep_retry", !.failure = "process"]
      ELSE [b EXCEPT !.pc = "publish", !.processed = frame.ret,
                     !.steps = Append(@, "publish")]

\* channel.send is over (out), then finally: _cleanup_video (u).
AfterPublish(b, fsys, out, u) ==
    [b EXCEPT !.pc = "sleep_interval", !.published = out,
              !.had_file = Exists(fsys, b.processed),
              !.cleanup = IF UnlinkRaised(fsys, b.processed, u)
                            THEN "oserror" ELSE "ok",
              !.failure = IF out = "ok" THEN "none" ELSE "publish",
              !.steps = Append(@, "cleanup")]

\* _cleanup_video ran for this cycle's file.
CleanedUp(b) == b.cleanup # "none"

CleanupFs(b, fsys, u) ==
    IF CleanedUp(b) THEN UnlinkFs(fsys, b.processed, u) ELSE fsys

\* Where recording_task awaits.
AwaitPoints == {"wait_ready", "recording", "publish", "sleep_interval", "sleep_retry"}

\* Where close() can be called for the first time: while the task awaits,
\* and from the finally of run_bot when start() ended before the client was
\* ready (login failed, or setup_hook raised).
ClosePoints == AwaitPoints \cup {"off", "setup_failed"}

\* record_video: start_recording is over
AfterStartRecording(b, o) ==
    IF o.last.exc = "none"
      THEN [b EXCEPT !.pc = "recording", !.started = o.last.starts = 1]
      ELSE CycleReturns(b, "record")

\* close(): disconnect is over; super().close() is entered unless it raised
AfterDisconnect(b, o) ==
    IF o.last.exc = "none"
      THEN [b EXCEPT !.close = "closed", !.closed = TRUE]
      ELSE [b EXCEPT !.close = "raised"]

\* The cancelled task runs: CancelledError leaves its await; from
\* channel.send it passes the finally of _record_and_post.
AfterCancel(b, fsys, u) ==
    IF b.pc = "publish"
      THEN [b EXCEPT !.pc = "cancelled", !.published = "cancelled",
                     !.had_file = Exists(fsys, b.processed),
                     !.cleanup = IF UnlinkRaised(fsys, b.processed, u)
                                   THEN "oserror" ELSE "ok",
                     !.steps = Append(@, "cleanup")]
      ELSE [b EXCEPT !.pc = "cancelled"]

BotSetupHook ==
    /\ bot.pc = "off"
    /\ bot.close = "none"
    /\ \E k \in ConnectOutcomes :
          /\ obs' = Connect(obs, k)
          /\ bot' = [bot EXCEPT !.pc = IF obs'.last.exc = "none"
                                         THEN "wait_ready" ELSE "setup_failed"]
    /\ UNCHANGED <<fs, target_size_mb, call, calc, cfg>>

\* wait_until_ready returns
BotReady ==
    /\ bot.pc = "wait_ready"
    /\ ~bot.cancelled
    /\ bot' = NewCycle(bot)
    /\ UNCHANGED <<fs, target_size_mb, call, calc, obs, cfg>>

\* _record_and_post up to the first request of start_recording
BotRecordBegin ==
    /\ bot.pc = "cycle"
    /\ \E ch \in Channels :
          IF ch # "text"
            THEN /\ bot' = CycleReturns(bot, "channel")
                 /\ obs' = obs
            ELSE /\ obs' = StartRecording(obs)
                 /\ bot' = [bot EXCEPT !.pc = "starting", !.steps = <<"record">>]
    /\ UNCHANGED <<fs, target_size_mb, call, calc, cfg>>

\* start_recording returned or raised: record_video sleeps, or the cycle
\* returns
BotRecordStarted ==
    /\ bot.pc = "starting"
    /\ obs.pc = "idle"
    /\ bot' = AfterStartRecording(bot, obs)
    /\ UNCHANGED <<fs, target_size_mb, call, calc, obs, cfg>>

\* record_video wakes: stop_recording up to its first request
BotRecordEnd ==
    /\ bot.pc = "recording"
    /\ ~bot.cancelled
    /\ obs' = StopRecording(obs)
    /\ bot' = [bot EXCEPT !.pc = "stopping"]
    /\ UNCHANGED <<fs, target_size_mb, call, calc, cfg>>

\* stop_recording returned or raised; then stat and compress_if_needed up
\* to its first tool run
BotRecorded ==
    /\ bot.pc = "stopping"
    /\ obs.pc = "idle"
    /\ IF obs.last.exc # "none"
         THEN /\ bot' = CycleReturns(bot, "record")
              /\ call' = call
         ELSE /\ bot' = [bot EXCEPT !.pc = "process", !.recorded = obs.last.path,
                                    !.steps = Append(@, "process")]
              /\ call' = [call EXCEPT ![BotCaller] =
                            CompressIfNeededBegin(fs, target_size_mb, obs.last.path,
                                                  ThresholdArg(FALSE, 0), TRUE)]
    /\ UNCHANGED <<fs, target_size_mb, calc, obs, cfg>>

BotProcessEnd ==
    /\ bot.pc = "process"
    /\ call[BotCaller].pc \in {"returned", "raised"}
    /\ bot' = AfterProcess(bot, call[BotCaller])
    /\ UNCHANGED <<fs, target_size_mb, call, calc, obs, cfg>>

BotPublishEnd ==
    /\ bot.pc = "publish"
    /\ ~bot.cancelled
    /\ \E out \in PublishOutcomesAt(fs, bot.processed), u \in UnlinkOutcomes :
          /\ bot' = AfterPublish(bot, fs, out, u)
          /\ fs' = CleanupFs(bot', fs, u)
    /\ UNCHANGED <<target_size_mb, call, calc, obs, cfg>>

\* asyncio.sleep(recording_interval) or asyncio.sleep(60) is over
BotWake ==
    /\ bot.pc \in {"sleep_interval", "sleep_retry"}
    /\ ~bot.cancelled
    /\ bot' = NewCycle(bot)
    /\ call' = [call EXCEPT ![BotCaller] = IdleCall]
    /\ UNCHANGED <<fs, target_size_mb, calc, obs, cfg>>

\* close() is called: the task is marked cancelled and disconnect runs up
\* to its first request.  A close() that raised, or one that is over, can
\* be followed by another.
BotClose ==
    /\ \/ bot.close = "none" /\ bot.pc \in ClosePoints
       \/ bot.close \in {"closed", "raised"}
    /\ obs' = Disconnect(obs)
    /\ bot' = [bot EXCEPT !.cancelled = TRUE, !.close = "disconnect"]
    /\ UNCHANGED <<fs, target_size_mb, call, calc, cfg>>

\* disconnect returned or raised
BotCloseEnd ==
    /\ bot.close = "disconnect"
    /\ obs.pc = "idle"
    /\ bot' = AfterDisconnect(bot, obs)
    /\ UNCHANGED <<fs, target_size_mb, call, calc, obs, cfg>>

\* close() has given way to the event loop (or has raised): the cancelled
\* task runs.
BotCancelled ==
    /\ bot.cancelled
    /\ bot.close \in {"closed", "raised"}
    /\ bot.pc \in ClosePoints
    /\ \E u \in UnlinkOutcomes :
          /\ bot' = AfterCancel(bot, fs, u)
          /\ fs' = IF bot.pc = "publish" THEN UnlinkFs(fs, bot.processed, u) ELSE fs
    /\ UNCHANGED <<target_size_mb, call, calc, obs, cfg>>

\* The steps of the recording task
BotTask ==
    \/ BotReady
    \/ BotRecordBegin
    \/ BotRecordStarted
    \/ BotRecordEnd
    \/ BotRecorded
    \/ ProbeFormat(BotCaller)
    \/ ProbeStream(BotCaller)
    \/ RunFfmpeg(BotCaller)
    \/ ConvertFfmpeg(BotCaller)
    \/ DeleteOriginal(BotCaller)
    \/ BotProcessEnd
    \/ BotPublishEnd
    \/ BotWake
    \/ ObsAnswersStatus
    \/ ObsAnswersStart
    \/ ObsAnswersStop

NextBot ==
    \/ BotSetupHook
    \/ BotTask
    \/ BotClose
    \/ BotCloseEnd
    \/ BotCancelled

SpecBot == InitObs /\ [][NextBot]_vars

\* The event loop runs the task whenever it can go on: sleeps end, ffmpeg
\* and ffprobe exit, OBS and Discord answer or time out.
FairSpecBot == SpecBot /\ WF_vars(BotTask)

\* C15: a failed publish leaves the artifact on disk, and cleanup deletes
\* the returned artifact only after a successful publish.
C15_FailedPublishKeepsArtifact ==
    /\ bot.published = "fail" /\ bot.had_file => OnDisk(fs, bot.processed)
    /\ bot.cleanup # "none" => bot.published = "ok"

CycleFailed == bot.failure \in {"record", "process"}

\* C16: a cycle in which recording or compress_if_needed failed publishes
\* nothing, and unless close is called a later cycle is attempted.
C16_ScheduleSurvivesFailure ==
    /\ [](CycleFailed => bot.published = "none")
    /\ (CycleFailed ~> (bot.cancelled \/ bot.pc = "cycle"))

C16_Witness ==
    /\ bot.pc = "cycle"
    /\ bot.prev_failure = "process"
    /\ ~bot.cancelled


CycleOrder == <<"record", "process", "publish", "cleanup">>

IsPrefix(a, b) == Len(a) <= Len(b) /\ \A i \in 1..Len(a) : a[i] = b[i]

Reached(step) == \E i \in 1..Len(bot.steps) : bot.steps[i] = step

Deleted(p) == fs[p] # NoFile /\ fs'[p] = NoFile

\* C21: the steps of a cycle come in the order record, process, publish,
\* cleanup; publish is attempted only after compress_if_needed returned and
\* is given the path it returned; outside compress_if_needed the only file
\* a cycle deletes is that path, in its cleanup step.
C21_CycleOrder ==
    /\ [](/\ IsPrefix(bot.steps, CycleOrder)
          /\ Reached("publish") =>
                /\ call[BotCaller].pc = "returned"
                /\ bot.processed = call[BotCaller].ret)
    /\ [][\A p \in AllPaths :
            Deleted(p) /\ call'[BotCaller] = call[BotCaller] =>
                /\ p = call[BotCaller].ret
                /\ call[BotCaller].pc = "returned"
                /\ bot.steps = SubSeq(CycleOrder, 1, 3)
                /\ bot'.steps = CycleOrder]_vars

C21_Witness ==
    /\ bot.steps = CycleOrder
    /\ bot.published = "ok"
    /\ bot.cleanup = "ok"
    /\ call[BotCaller].branch = "compress"
    /\ bot.processed # bot.recorded
    /\ ~OnDisk(fs, bot.processed)


-----------------------------------------------------------------------------
(* The transcode command lines, as the calls of Spec issue them *)

HasFlag(cmd, flag) == \E i \in 1..Len(cmd) : cmd[i] = flag

HasOption(cmd, flag, value) ==
    \E i \in 1..(Len(cmd) - 1) : cmd[i] = flag /\ cmd[i + 1] = value

OptionValues(cmd, flag) ==
    {cmd[i + 1] : i \in {j \in 1..(Len(cmd) - 1) : cmd[j] = flag}}

CommonOptions(cmd) ==
    /\ HasOption(cmd, "-c:v", "libx264")
    /\ HasOption(cmd, "-c:a", "aac")
    /\ HasOption(cmd, "-b:a", "128k")
    /\ HasOption(cmd, "-movflags", "+faststart")
    /\ HasOption(cmd, "-f", "mp4")
    /\ HasFlag(cmd, "-y")

ShrinkOptions(cmd, kbit) ==
    /\ HasOption(cmd, "-preset", "medium")
    /\ OptionValues(cmd, "-b:v") = {ToString(kbit) \o "k"}
    /\ OptionValues(cmd, "-maxrate") = OptionValues(cmd, "-b:v")
    /\ OptionValues(cmd, "-bufsize") = {ToString(2 * kbit) \o "k"}

FormatOnlyOptions(cmd) ==
    /\ HasOption(cmd, "-preset", "fast")
    /\ ~HasFlag(cmd, "-b:v")
    /\ ~HasFlag(cmd, "-maxrate")
    /\ ~HasFlag(cmd, "-bufsize")

\* C22: both ffmpeg command lines carry the video codec, the audio codec
\* and audio bitrate, the fast-start flag, the forced output container and
\* the overwrite flag; the shrink one has the medium preset, -b:v equal to
\* -maxrate and -bufsize twice the bitrate; the format-only one has the
\* fast preset and none of -b:v, -maxrate, -bufsize.
C22_TranscodeOptions ==
    \A c \in CallIds : call[c].transcodes > 0 =>
        /\ CommonOptions(call[c].cmd)
        /\ call[c].branch = "compress" =>
               ShrinkOptions(call[c].cmd, call[c].bitrate)
        /\ call[c].branch = "convert" => FormatOnlyOptions(call[c].cmd)


\* C23: in compress_if_needed the budget _calculate_bitrate works with is
\* the threshold that decided the file needs shrinking (threshold_mb when
\* given, else target_size_mb), whatever calls came before.
C23_BudgetIsThreshold ==
    \A c \in CallIds :
        call[c].bitrate_budget # 0 =>
            call[c].bitrate_budget = call[c].threshold_mb


-----------------------------------------------------------------------------
(* The recorder under the bot *)

\* stop_recording, called by a record_video that sent a start request, is
\* over.
StoppedByRecordVideo ==
    bot.started /\ bot.pc = "stopping" /\ obs.pc = "idle"

\* The wait of a record_video that sent a start request was cancelled, and
\* the disconnect of close is over.
DisconnectedInRecordVideo ==
    /\ bot.started /\ bot.pc = "recording"
    /\ bot.close \in {"closed", "raised"}
    /\ obs.last.was_connected

\* disconnect ends with no connection held
Disconnects ==
    /\ obs.pc # "idle" /\ obs'.pc = "idle"
    /\ obs'.last.op = "disconnect" /\ ~obs'.client

\* C24: a recording that record_video started gets a stop request before
\* record_video returns or raises, or from disconnect when close cancels
\* the wait; and OBS is not recording once the client has disconnected.
C24_RecordingStopped ==
    /\ [](StoppedByRecordVideo => obs.last.stops = 1)
    /\ [](DisconnectedInRecordVideo => obs.last.stops = 1)
    /\ [][Disconnects => ~obs'.recording]_vars


-----------------------------------------------------------------------------
(* The client alone *)

Requests(l) == l.queries + l.starts + l.stops

\* C25: disconnect always returns with no connection held, whatever OBS
\* does and answers, also when recording changes between the status check
\* and the stop; on an unconnected client it does nothing; a connect after
\* it creates a connection.
C25_DisconnectDisconnects ==
    /\ obs.last.op = "disconnect" /\ obs.pc = "idle" =>
           /\ ~obs.client
           /\ obs.last.exc = "none"
           /\ ~obs.last.was_connected => Requests(obs.last) = 0
    /\ obs.last.op = "connect" /\ ~obs.last.was_connected =>
           obs.last.connects = 1

\* C27: no request goes to OBS without a connection: is_recording,
\* start_recording and stop_recording raise RuntimeError and change
\* nothing, and connect on a connected client creates no connection.
C27_NoRequestWhenDisconnected ==
    /\ [](/\ ~obs.last.was_connected => Requests(obs.last) = 0
          /\ obs.last.op \in {"is_recording", "start", "stop"}
                /\ ~obs.last.was_connected =>
                    obs.last.exc = "RuntimeError" /\ obs.last.path = NoPath
          /\ obs.last.op = "connect" /\ obs.last.was_connected =>
                    obs.last.connects = 0 /\ obs.last.exc = "none")
    /\ [][/\ ~obs.client /\ obs'.last # obs.last
             /\ obs'.last.op \in {"is_recording", "start", "stop"} =>
                    /\ obs'.client = obs.client
                    /\ obs'.recording = obs.recording
                    /\ fs' = fs
          /\ obs.client /\ obs'.last # obs.last /\ obs'.last.op = "connect" =>
                    obs'.client /\ obs'.recording = obs.recording]_vars

C27_Witness ==
    /\ obs.last.op = "start"
    /\ ~obs.last.was_connected
    /\ ~obs.last.was_recording
    /\ ~obs.recording
    /\ obs.last.exc = "RuntimeError"


-----------------------------------------------------------------------------
(* What a cycle leaves behind *)

\* _record_and_post is over and the task sleeps.
CycleEnded == bot.pc \in {"sleep_interval", "sleep_retry"}

\* The media files of the cycle: the recording and what compress_if_needed
\* was to write.
CycleFiles == {bot.recorded, call[BotCaller].output_path} \ {NoPath}

\* C26: when a cycle has ended, by return or by exception, none of the
\* media files made in it (the recording, a processed output) is on disk.
C26_NothingLeftBehind ==
    CycleEnded => \A p \in CycleFiles : ~OnDisk(fs, p)

====
